---- MODULE Spec2Model ----
(***************************************************************************)
(* Model of the core IR of cation: Pauli strings (core_ir/pauli.rs),       *)
(* symbols (core_ir/symb.rs), expression trees (core_ir/expr.rs) and the   *)
(* flatten / canonical passes (core_ir/canonical.rs).                      *)
(*                                                                         *)
(* Values.  An f64 is a record [nan, v]: the comparable values are the     *)
(* integers v, and NaN is the one value that compares with nothing.  A     *)
(* String is the sequence of its code points.  A Pauli operator is one of  *)
(* "I", "X", "Y", "Z"; a (usize, Pauli) pair is the tuple <<idx, p>>; a    *)
(* PauliString is the record of its field ops.                             *)
(* An Arc<Expr> is the expression it points to (all data is immutable).    *)
(***************************************************************************)
EXTENDS Integers, Sequences, FiniteSets, Bags, TLC

VARIABLES
    stack,      \* the Arc<Expr> values the caller has built and not yet used
    expr,       \* the expression tree handed to flatten and canonical
    flat,       \* expr.flatten()
    reflat,     \* flat.flatten()
    canon,      \* expr.canonical().get()
    recanon,    \* canon.canonical().get()
    perm,       \* expr with the children of one node reordered
    canonPerm,  \* perm.canonical().get()
    pc,         \* position of the caller's script
    raw,        \* Vec<(usize, Pauli)> handed to PauliString::new
    ps,         \* the PauliString returned by PauliString::new
    text,       \* String handed to PauliString::from_string
    parsed,     \* Result<PauliString, String> returned by from_string
    x,          \* first expression handed to the sort comparator
    y,          \* second expression handed to the sort comparator
    z,          \* third expression handed to the sort comparator
    cxy,        \* the comparator's verdict on (x, y)
    cyx,        \* the comparator's verdict on (y, x)
    cyz,        \* the comparator's verdict on (y, z)
    cxz         \* the comparator's verdict on (x, z)

vars == <<stack, expr, flat, reflat, canon, recanon, perm, canonPerm, pc,
          raw, ps, text, parsed, x, y, z, cxy, cyx, cyz, cxz>>

(***************************************************************************)
(* Bounds.                                                                 *)
(***************************************************************************)
MaxNodes == 5      \* nodes of an expression tree handed to flatten/canonical
MaxOps == 3        \* length of the list handed to PauliString::new
MaxText == 3       \* length of the text handed to PauliString::from_string
MaxIdx == 2        \* largest qubit index in a raw list

Null == [kind |-> "Null"]

(***************************************************************************)
(* f64 and String.                                                         *)
(***************************************************************************)
F64(v) == [nan |-> FALSE, v |-> v]
NaN == [nan |-> TRUE, v |-> 0]

\* f64 == f64: NaN is equal to nothing, itself included.
F64Eq(a, b) == ~a.nan /\ ~b.nan /\ a.v = b.v

IntCmp(a, b) == IF a < b THEN "Less" ELSE IF a > b THEN "Greater" ELSE "Equal"

\* f64::partial_cmp: None as soon as one side is NaN.
F64PartialCmp(a, b) == IF a.nan \/ b.nan THEN "None" ELSE IntCmp(a.v, b.v)

\* Lexicographic comparison of two sequences of integers: Ord for String
\* (byte order) and Iterator::cmp over qubit indices.
RECURSIVE LexCmp(_, _)
LexCmp(s, t) ==
    IF s = <<>> /\ t = <<>> THEN "Equal"
    ELSE IF s = <<>> THEN "Less"
    ELSE IF t = <<>> THEN "Greater"
    ELSE IF Head(s) # Head(t) THEN IntCmp(Head(s), Head(t))
    ELSE LexCmp(Tail(s), Tail(t))

(***************************************************************************)
(* core_ir/pauli.rs                                                        *)
(***************************************************************************)
Pauli == {"I", "X", "Y", "Z"}

Ok(v) == [tag |-> "Ok", val |-> v]
Err(c) == [tag |-> "Err", char |-> c]   \* "Invalid Pauli character: 'c'"

\* TryFrom<char> for Pauli: 'I' = 73, 'X' = 88, 'Y' = 89, 'Z' = 90.
try_from(c) ==
    IF c = 73 THEN Ok("I")
    ELSE IF c = 88 THEN Ok("X")
    ELSE IF c = 89 THEN Ok("Y")
    ELSE IF c = 90 THEN Ok("Z")
    ELSE Err(c)

\* ops.retain(|(_, p)| *p != Pauli::I)
retain(ops) == SelectSeq(ops, LAMBDA o : o[2] # "I")

\* One step of the stable sort by key: o goes after every element whose
\* index is not greater than its own.
RECURSIVE insert_by_key(_, _)
insert_by_key(sorted, o) ==
    IF sorted = <<>> THEN <<o>>
    ELSE IF o[1] < sorted[Len(sorted)][1]
         THEN Append(insert_by_key(SubSeq(sorted, 1, Len(sorted) - 1), o),
                     sorted[Len(sorted)])
         ELSE Append(sorted, o)

\* ops.sort_by_key(|(i, _)| *i): stable.
RECURSIVE sort_by_key(_)
sort_by_key(ops) ==
    IF ops = <<>> THEN <<>>
    ELSE insert_by_key(sort_by_key(SubSeq(ops, 1, Len(ops) - 1)), ops[Len(ops)])

\* PauliString::new
PauliString_new(ops) == [ops |-> sort_by_key(retain(ops))]

\* Variant of collect that keeps the error met last instead of first.
RECURSIVE collect_last_error(_, _)
collect_last_error(chars, idx) ==
    IF chars = <<>> THEN Ok(<<>>)
    ELSE LET r == try_from(Head(chars))
             rest == collect_last_error(Tail(chars), idx + 1) IN
         IF rest.tag = "Err" THEN rest
         ELSE IF r.tag = "Err" THEN r
         ELSE Ok(<< <<idx, r.val>> >> \o rest.val)

\* input.chars().enumerate().map(..try_from..).collect::<Result<Vec<_>, _>>():
\* the pairs (position, operator), or the first error met from the left.
RECURSIVE collect(_, _)
collect(chars, idx) ==
    IF chars = <<>> THEN Ok(<<>>)
    ELSE LET r == try_from(Head(chars)) IN
         IF r.tag = "Err" THEN r
         ELSE LET rest == collect(Tail(chars), idx + 1) IN
              IF rest.tag = "Err" THEN rest
              ELSE Ok(<< <<idx, r.val>> >> \o rest.val)

\* PauliString::from_string
from_string(input) ==
    LET ops == collect(input, 0) IN
    IF ops.tag = "Err" THEN ops ELSE Ok(PauliString_new(ops.val))

\* Ord for PauliString: compares the index sequences only.
PauliIndices(p) == [i \in 1..Len(p.ops) |-> p.ops[i][1]]
PauliString_cmp(p, q) == LexCmp(PauliIndices(p), PauliIndices(q))

(***************************************************************************)
(* core_ir/symb.rs                                                         *)
(***************************************************************************)
Named(name) == [tag |-> "Named", name |-> name]
Bound(name, value) == [tag |-> "Bound", name |-> name, value |-> value]

\* Symbol::new
Symbol_new(name) == Named(name)

SymbolRank(s) == IF s.tag = "Named" THEN 0 ELSE 1

\* derived PartialEq for Symbol
SymbolEq(s, t) ==
    /\ s.tag = t.tag
    /\ s.name = t.name
    /\ (s.tag = "Bound" => F64Eq(s.value, t.value))

\* derived PartialOrd for Symbol: variant first, then the fields in order.
SymbolPartialCmp(s, t) ==
    IF SymbolRank(s) # SymbolRank(t) THEN IntCmp(SymbolRank(s), SymbolRank(t))
    ELSE IF LexCmp(s.name, t.name) # "Equal" THEN LexCmp(s.name, t.name)
    ELSE IF s.tag = "Named" THEN "Equal"
    ELSE F64PartialCmp(s.value, t.value)

(***************************************************************************)
(* core_ir/expr.rs                                                         *)
(***************************************************************************)
scalar(val) == [kind |-> "Scalar", val |-> val]
symbol(sym) == [kind |-> "Symbol", sym |-> sym]
pauli(p) == [kind |-> "Pauli", p |-> p]
sum(s) == [kind |-> "Sum", args |-> s]
product(factors) == [kind |-> "Product", args |-> factors]

IsLeaf(e) == e.kind \in {"Scalar", "Symbol", "Pauli"}

\* Position of the variant in the enum declaration.
KindRank(e) ==
    CASE e.kind = "Scalar" -> 0
      [] e.kind = "Symbol" -> 1
      [] e.kind = "Pauli" -> 2
      [] e.kind = "Sum" -> 3
      [] e.kind = "Product" -> 4

\* derived PartialEq for Expr
RECURSIVE ExprEq(_, _)
ExprEq(a, b) ==
    /\ a.kind = b.kind
    /\ CASE a.kind = "Scalar" -> F64Eq(a.val, b.val)
         [] a.kind = "Symbol" -> SymbolEq(a.sym, b.sym)
         [] a.kind = "Pauli" -> a.p = b.p
         [] a.kind \in {"Sum", "Product"} ->
                /\ Len(a.args) = Len(b.args)
                /\ \A i \in 1..Len(a.args) : ExprEq(a.args[i], b.args[i])
         [] OTHER -> TRUE

\* derived PartialOrd for Expr (partial_cmp), and PartialOrd for the
\* Vec<Arc<Expr>> of a Sum or Product: element by element, the first verdict
\* that is not Equal (None included) decides, then the lengths.
RECURSIVE ExprPartialCmp(_, _)
RECURSIVE VecPartialCmp(_, _)
VecPartialCmp(s, t) ==
    IF s = <<>> \/ t = <<>> THEN IntCmp(Len(s), Len(t))
    ELSE LET c == ExprPartialCmp(Head(s), Head(t)) IN
         IF c # "Equal" THEN c ELSE VecPartialCmp(Tail(s), Tail(t))

ExprPartialCmp(a, b) ==
    IF KindRank(a) # KindRank(b) THEN IntCmp(KindRank(a), KindRank(b))
    ELSE CASE a.kind = "Scalar" -> F64PartialCmp(a.val, b.val)
           [] a.kind = "Symbol" -> SymbolPartialCmp(a.sym, b.sym)
           [] a.kind = "Pauli" -> PauliString_cmp(a.p, b.p)
           [] OTHER -> VecPartialCmp(a.args, b.args)

(***************************************************************************)
(* core_ir/canonical.rs                                                    *)
(***************************************************************************)
\* The closure handed to sort_by: partial_cmp, with None read as Equal.
sort_cmp(a, b) ==
    LET c == ExprPartialCmp(a, b) IN IF c = "None" THEN "Equal" ELSE c

\* Variant of insert_by that also moves e left past the elements it ties
\* with (an unstable sort).
RECURSIVE insert_by_unstable(_, _)
insert_by_unstable(sorted, e) ==
    IF sorted = <<>> THEN <<e>>
    ELSE IF sort_cmp(e, sorted[Len(sorted)]) # "Greater"
         THEN Append(insert_by_unstable(SubSeq(sorted, 1, Len(sorted) - 1), e),
                     sorted[Len(sorted)])
         ELSE Append(sorted, e)

\* One step of the stable sort: e moves left past every element it is less
\* than.
RECURSIVE insert_by(_, _)
insert_by(sorted, e) ==
    IF sorted = <<>> THEN <<e>>
    ELSE IF sort_cmp(e, sorted[Len(sorted)]) = "Less"
         THEN Append(insert_by(SubSeq(sorted, 1, Len(sorted) - 1), e),
                     sorted[Len(sorted)])
         ELSE Append(sorted, e)

\* What out.sort_by(..) leaves behind: the slice, rearranged, when it returns,
\* and Panic when it unwinds.
Sorted(out) == [kind |-> "Sorted", out |-> out]
Panic == [kind |-> "Panic"]

\* The slice length up to which the standard library's stable sort is a plain
\* insertion sort, whatever the closure answers.
SmallSortLen == 20

\* The stable insertion sort: each element in turn moves left past every
\* element it is less than.
RECURSIVE insertion_sort(_)
insertion_sort(out) ==
    IF out = <<>> THEN <<>>
    ELSE insert_by(insertion_sort(SubSeq(out, 1, Len(out) - 1)), out[Len(out)])

\* The closure is a total order on the elements of out: its answers are
\* mirrored when the arguments are swapped, and Less-or-Equal is transitive.
\* It fails to be one when a NaN scalar, read as Equal to everything, sits
\* between two terms that are not Equal.
IsTotalOrder(out) ==
    LET n == Len(out)
        Mirror(c) == CASE c = "Less" -> "Greater"
                       [] c = "Greater" -> "Less"
                       [] OTHER -> "Equal"
        Le(i, j) == sort_cmp(out[i], out[j]) # "Greater" IN
    /\ \A i, j \in 1..n : sort_cmp(out[j], out[i]) = Mirror(sort_cmp(out[i], out[j]))
    /\ \A i, j, k \in 1..n : Le(i, j) /\ Le(j, k) => Le(i, k)

\* r holds the elements of out, each as many times as out does.
IsRearrangement(r, out) ==
    LET Count(s, e) == Cardinality({i \in 1..Len(s) : s[i] = e}) IN
    /\ Len(r) = Len(out)
    /\ \A i \in 1..Len(out) : Count(r, out[i]) = Count(out, out[i])

\* Every way out.sort_by(..) can return on a slice it leaves in an
\* unspecified order: all the elements remain, in some order.
Rearrangements(out) ==
    {s \in [kind : {"Sorted"}, out : [1..Len(out) -> {out[i] : i \in 1..Len(out)}]] :
        IsRearrangement(s.out, out)}

\* Variant of sort_by that drops a term equal to one already sorted.
sort_by_dedup(out) ==
    LET RECURSIVE dedup(_)
        dedup(o) ==
            IF o = <<>> THEN <<>>
            ELSE LET rest == dedup(SubSeq(o, 1, Len(o) - 1))
                     e == o[Len(o)] IN
                 IF \E i \in 1..Len(rest) : ExprEq(rest[i], e) THEN rest
                 ELSE insert_by(rest, e) IN
    {Sorted(dedup(out))}

\* out.sort_by(..), as the set of its outcomes.  A slice of at most
\* SmallSortLen elements, or one the closure orders totally, has one outcome:
\* the stable sort.  On a longer slice that the closure does not order
\* totally the order left behind is unspecified and the call may panic.
sort_by(out) ==
    IF Len(out) <= SmallSortLen \/ IsTotalOrder(out)
    THEN {Sorted(insertion_sort(out))}
    ELSE {Panic} \cup Rearrangements(out)

\* Variant of splice that unrolls a Sum or Product child whatever the kind
\* of its parent.
splice_any_kind(k, flat_term) ==
    IF flat_term.kind \in {"Sum", "Product"} THEN flat_term.args ELSE <<flat_term>>

\* What one flattened child contributes to its parent of kind k: its own
\* children when it is of kind k too, itself otherwise.
splice(k, flat_term) ==
    IF flat_term.kind = k THEN flat_term.args ELSE <<flat_term>>

\* Variant of flatten that splices the children as given, without flattening
\* them first.
flatten_shallow(e) ==
    LET RECURSIVE terms(_, _)
        terms(k, ts) == IF ts = <<>> THEN <<>>
                        ELSE splice(k, Head(ts)) \o terms(k, Tail(ts)) IN
    IF e.kind = "Sum" THEN sum(terms("Sum", e.args))
    ELSE IF e.kind = "Product" THEN product(terms("Product", e.args))
    ELSE e

\* Flatten for Expr
RECURSIVE flatten(_)
RECURSIVE flatten_terms(_, _)
\* Variant of flatten_terms that puts each child's contribution in front of
\* the output instead of at its end.
flatten_terms_prepend(k, terms) ==
    IF terms = <<>> THEN <<>>
    ELSE flatten_terms(k, Tail(terms)) \o splice(k, flatten(Head(terms)))

flatten_terms(k, terms) ==
    IF terms = <<>> THEN <<>>
    ELSE splice(k, flatten(Head(terms))) \o flatten_terms(k, Tail(terms))

flatten(e) ==
    IF e.kind = "Sum" THEN sum(flatten_terms("Sum", e.args))
    ELSE IF e.kind = "Product" THEN product(flatten_terms("Product", e.args))
    ELSE e

\* The ways of taking one returned outcome from each of kids, in order.
RECURSIVE choices(_)
choices(kids) ==
    IF kids = <<>> THEN {<<>>}
    ELSE {<<h>> \o t : h \in Head(kids) \ {Panic}, t \in choices(Tail(kids))}

\* A panic in the canonicalization of a child unwinds through its parent.
unwinds(kids) == IF \E i \in 1..Len(kids) : Panic \in kids[i] THEN {Panic} ELSE {}

\* The Sum arm, for one choice out of canonical children: the Sum of out as
\* sort_by leaves it, and Panic when sort_by can panic.
sorted_sum(out) ==
    LET outcomes == sort_by(out) IN
    IF Panic \in outcomes
    THEN {Panic} \cup
         {t \in [kind : {"Sum"}, args : [1..Len(out) -> {out[i] : i \in 1..Len(out)}]] :
             Sorted(t.args) \in outcomes}
    ELSE {sum(s.out) : s \in outcomes}

\* Variant of canonical_inner that sorts the factors of a Product as well.
RECURSIVE canonical_inner_sorting_products(_)
canonical_inner_sorting_products(e) ==
    LET f == flatten(e) IN
    IF f.kind \in {"Sum", "Product"}
    THEN LET kids == [i \in 1..Len(f.args) |->
                         canonical_inner_sorting_products(f.args[i])] IN
         unwinds(kids) \cup
         {IF s.kind = "Panic" THEN Panic ELSE [f EXCEPT !.args = s.out] :
             s \in UNION {sort_by(out) : out \in choices(kids)}}
    ELSE {f}

\* Expr::canonical_inner, as the set of its outcomes: the canonical trees it
\* can return, and Panic when a sort_by in it can panic.
RECURSIVE canonical_inner(_)
canonical_inner(e) ==
    LET f == flatten(e) IN
    IF f.kind \in {"Sum", "Product"}
    THEN LET kids == [i \in 1..Len(f.args) |-> canonical_inner(f.args[i])] IN
         unwinds(kids) \cup
         (IF f.kind = "Sum" THEN UNION {sorted_sum(out) : out \in choices(kids)}
          ELSE {product(out) : out \in choices(kids)})
    ELSE {f}

\* Canonical::canonical followed by Canonicalized::get, as the set of its
\* outcomes.
canonical(e) == canonical_inner(e)

(***************************************************************************)
(* The leaf values the caller builds trees from.                           *)
(***************************************************************************)
X0 == PauliString_new(<< <<0, "X">> >>)
Y0 == PauliString_new(<< <<0, "Y">> >>)

\* The scalars of the trees are comparable values.  A NaN scalar is equal to
\* nothing under ExprEq, itself included; NaN is an input of SpecOrd.  The
\* trees stay below SmallSortLen terms, where sort_by has one outcome.
Scalars == {F64(1)}
Symbols == {Symbol_new(<<97>>)}
PauliStrings == {X0, Y0}

\* Number of nodes of a tree, and of a sequence of trees.
RECURSIVE Size(_)
RECURSIVE SizeAll(_)
Size(e) == IF IsLeaf(e) THEN 1 ELSE 1 + SizeAll(e.args)
SizeAll(s) == IF s = <<>> THEN 0 ELSE Size(Head(s)) + SizeAll(Tail(s))

\* The last k elements of s, and s without them.
LastK(s, k) == SubSeq(s, Len(s) - k + 1, Len(s))
DropK(s, k) == SubSeq(s, 1, Len(s) - k)

\* The permutations of 1..n other than the identity, for every n a Sum of a
\* tree within the bound can have.
PermsTable ==
    [n \in 0..MaxNodes |->
        {p \in [1..n -> 1..n] : /\ \A i, j \in 1..n : p[i] = p[j] => i = j
                               /\ \E i \in 1..n : p[i] # i}]
Perms(n) == PermsTable[n]

\* The trees obtained from e by permuting the terms of exactly one of its
\* Sum nodes (the root, or a Sum at any depth under Sums and Products).
RECURSIVE PermutedSums(_)
PermutedSums(e) ==
    IF IsLeaf(e) THEN {}
    ELSE LET n == Len(e.args) IN
         (IF e.kind = "Sum"
          THEN {sum([i \in 1..n |-> e.args[p[i]]]) :
                    p \in Perms(n)}
          ELSE {})
         \cup UNION {{[e EXCEPT !.args[i] = t] : t \in PermutedSums(e.args[i])} :
                     i \in 1..n}

(***************************************************************************)
(* Spec: a caller builds a tree with the constructors of expr.rs, flattens *)
(* it twice and canonicalizes it twice.  The results of a step stay in the *)
(* state unchanged, so a property of a step is stated at the position      *)
(* right after it.                                                         *)
(***************************************************************************)
pauliVars == <<raw, ps, text, parsed>>
ordVars == <<x, y, z, cxy, cyx, cyz, cxz>>
treeVars == <<stack, expr, flat, reflat, canon, recanon, perm, canonPerm>>

PauliIdle == raw = <<>> /\ ps = Null /\ text = <<>> /\ parsed = Null
OrdIdle == x = Null /\ y = Null /\ z = Null
           /\ cxy = "None" /\ cyx = "None" /\ cyz = "None" /\ cxz = "None"
TreeIdle == stack = <<>> /\ expr = Null /\ flat = Null /\ reflat = Null
            /\ canon = Null /\ recanon = Null /\ perm = Null /\ canonPerm = Null

Init == pc = "building" /\ TreeIdle /\ PauliIdle /\ OrdIdle

\* The values in s fit in one tree of at most MaxNodes nodes: on their own
\* when there is one, under a Sum or Product still to be built otherwise.
Fits(s) == SizeAll(s) + (IF Len(s) >= 2 THEN 1 ELSE 0) <= MaxNodes

Push(e) ==
    /\ pc = "building"
    /\ Fits(Append(stack, e))
    /\ stack' = Append(stack, e)
    /\ UNCHANGED <<pc, expr, flat, reflat, canon, recanon, perm, canonPerm,
                   pauliVars, ordVars>>

\* Expr::scalar, Expr::symbol, Expr::pauli
MkScalar == \E v \in Scalars : Push(scalar(v))
MkSymbol == \E s \in Symbols : Push(symbol(s))
MkPauli == \E p \in PauliStrings : Push(pauli(p))

Combine(k, e) ==
    /\ pc = "building"
    /\ Fits(Append(DropK(stack, k), e))
    /\ stack' = Append(DropK(stack, k), e)
    /\ UNCHANGED <<pc, expr, flat, reflat, canon, recanon, perm, canonPerm,
                   pauliVars, ordVars>>

\* Expr::sum and Expr::product over the k values built last.
MkSum == \E k \in 0..Len(stack) : Combine(k, sum(LastK(stack, k)))
MkProduct == \E k \in 0..Len(stack) : Combine(k, product(LastK(stack, k)))

\* The caller hands the one tree it has built to flatten.
Flatten ==
    /\ pc = "building"
    /\ Len(stack) = 1
    /\ expr' = stack[1]
    /\ flat' = flatten(stack[1])
    /\ pc' = "flattened"
    /\ UNCHANGED <<stack, reflat, canon, recanon, perm, canonPerm, pauliVars, ordVars>>

FlattenAgain ==
    /\ pc = "flattened"
    /\ reflat' = flatten(flat)
    /\ pc' = "reflattened"
    /\ UNCHANGED <<stack, expr, flat, canon, recanon, perm, canonPerm, pauliVars, ordVars>>

Canonical ==
    /\ pc = "reflattened"
    /\ \E r \in canonical(expr) :
           /\ canon' = r
           /\ pc' = IF r = Panic THEN "panicked" ELSE "canonical"
    /\ UNCHANGED <<stack, expr, flat, reflat, recanon, perm, canonPerm, pauliVars, ordVars>>

CanonicalAgain ==
    /\ pc = "canonical"
    /\ \E r \in canonical(canon) :
           /\ recanon' = r
           /\ pc' = IF r = Panic THEN "panicked" ELSE "recanonical"
    /\ UNCHANGED <<stack, expr, flat, reflat, canon, perm, canonPerm, pauliVars, ordVars>>

Next ==
    \/ MkScalar
    \/ MkSymbol
    \/ MkPauli
    \/ MkSum
    \/ MkProduct
    \/ Flatten
    \/ FlattenAgain
    \/ Canonical
    \/ CanonicalAgain

Spec == Init /\ [][Next]_vars

(***************************************************************************)
(* SpecReorder: a caller builds a tree, builds it a second time with the   *)
(* children of one node in another order, and canonicalizes both.          *)
(***************************************************************************)
\* The second tree has the terms of one Sum permuted.
PermuteSum ==
    /\ pc = "building"
    /\ Len(stack) = 1
    /\ expr' = stack[1]
    /\ \E r \in canonical(stack[1]) :
       \E t \in PermutedSums(stack[1]) :
       \E rp \in canonical(t) :
           /\ perm' = t
           /\ canon' = r
           /\ canonPerm' = rp
           /\ pc' = IF Panic \in {r, rp} THEN "panicked" ELSE "permuted"
    /\ UNCHANGED <<stack, flat, reflat, recanon, pauliVars, ordVars>>

\* The first tree is product([a, b]), the second product([b, a]).
SwapFactors ==
    /\ pc = "building"
    /\ Len(stack) = 1
    /\ stack[1].kind = "Product" /\ Len(stack[1].args) = 2
    /\ expr' = stack[1]
    /\ perm' = product(<<stack[1].args[2], stack[1].args[1]>>)
    /\ \E r \in canonical(stack[1]), rp \in canonical(perm') :
           /\ canon' = r
           /\ canonPerm' = rp
           /\ pc' = IF Panic \in {r, rp} THEN "panicked" ELSE "swapped"
    /\ UNCHANGED <<stack, flat, reflat, recanon, pauliVars, ordVars>>

NextReorder ==
    \/ MkScalar
    \/ MkSymbol
    \/ MkPauli
    \/ MkSum
    \/ MkProduct
    \/ PermuteSum
    \/ SwapFactors

SpecReorder == Init /\ [][NextReorder]_vars

(***************************************************************************)
(* SpecPauli: a caller hands a raw list to PauliString::new, or a text to  *)
(* PauliString::from_string.                                               *)
(***************************************************************************)
\* 'I', 'X', 'Y', 'Z' and two characters that name no operator: 'T', 'A'.
Chars == {73, 88, 89, 90, 84, 65}

SeqsUpTo(S, n) == UNION {[1..k -> S] : k \in 0..n}

RawLists == SeqsUpTo((0..MaxIdx) \X Pauli, MaxOps)
Texts == SeqsUpTo(Chars, MaxText)

InitPauli ==
    /\ \/ pc = "raw" /\ raw \in RawLists /\ text = <<>>
       \/ pc = "text" /\ text \in Texts /\ raw = <<>>
    /\ ps = Null /\ parsed = Null
    /\ TreeIdle /\ OrdIdle

New ==
    /\ pc = "raw"
    /\ ps' = PauliString_new(raw)
    /\ pc' = "new_done"
    /\ UNCHANGED <<raw, text, parsed, treeVars, ordVars>>

FromString ==
    /\ pc = "text"
    /\ parsed' = from_string(text)
    /\ pc' = "parse_done"
    /\ UNCHANGED <<raw, text, ps, treeVars, ordVars>>

NextPauli == New \/ FromString

SpecPauli == InitPauli /\ [][NextPauli]_vars

(***************************************************************************)
(* SpecOrd: the closure of sort_by is applied to the pairs of three        *)
(* expressions.                                                            *)
(***************************************************************************)
Z2 == PauliString_new(<< <<2, "Z">> >>)

OrdLeaves ==
    {scalar(F64(1)), scalar(F64(2)), scalar(NaN)}
    \cup {symbol(Named(<<97>>)), symbol(Named(<<97, 98>>)), symbol(Bound(<<97>>, F64(1)))}
    \cup {pauli(X0), pauli(Y0), pauli(Z2)}

OrdArgs == {scalar(F64(1)), pauli(X0), pauli(Y0)}

OrdExprs ==
    OrdLeaves
    \cup {sum(s) : s \in SeqsUpTo(OrdArgs, 2)}
    \cup {product(s) : s \in SeqsUpTo(OrdArgs, 2)}

InitOrd ==
    /\ pc = "ord"
    /\ x \in OrdExprs /\ y \in OrdExprs /\ z \in OrdExprs
    /\ cxy = "None" /\ cyx = "None" /\ cyz = "None" /\ cxz = "None"
    /\ TreeIdle /\ PauliIdle

Compare ==
    /\ pc = "ord"
    /\ cxy' = sort_cmp(x, y)
    /\ cyx' = sort_cmp(y, x)
    /\ cyz' = sort_cmp(y, z)
    /\ cxz' = sort_cmp(x, z)
    /\ pc' = "compared"
    /\ UNCHANGED <<x, y, z, treeVars, pauliVars>>

NextOrd == Compare

SpecOrd == InitOrd /\ [][NextOrd]_vars

(***************************************************************************)
(* Helpers of the properties.                                              *)
(***************************************************************************)
RECURSIVE Concat(_)
Concat(ss) == IF ss = <<>> THEN <<>> ELSE Head(ss) \o Concat(Tail(ss))

RECURSIVE Depth(_)
Depth(e) ==
    IF IsLeaf(e) \/ e.args = <<>> THEN 1
    ELSE 1 + CHOOSE d \in {Depth(e.args[i]) : i \in 1..Len(e.args)} :
                 \A j \in 1..Len(e.args) : Depth(e.args[j]) <= d

\* The bag of the leaf occurrences of a tree.
RECURSIVE LeafBag(_)
RECURSIVE LeafBagAll(_)
LeafBag(e) == IF IsLeaf(e) THEN SetToBag({e}) ELSE LeafBagAll(e.args)
LeafBagAll(s) == IF s = <<>> THEN EmptyBag ELSE LeafBag(Head(s)) (+) LeafBagAll(Tail(s))

\* No Sum has a Sum as a direct child and no Product a Product, at any depth.
RECURSIVE NoSameKindChild(_)
NoSameKindChild(e) ==
    IsLeaf(e) \/ \A i \in 1..Len(e.args) :
                    e.args[i].kind # e.kind /\ NoSameKindChild(e.args[i])

StrictlyAscending(ops) == \A i \in 1..(Len(ops) - 1) : ops[i][1] < ops[i + 1][1]
NoIdentity(ops) == \A i \in 1..Len(ops) : ops[i][2] # "I"

(***************************************************************************)
(* C1.  Sum commutativity: whichever Sum node of a tree has its terms      *)
(* permuted, and whatever the terms are, the permuted tree canonicalizes   *)
(* to a result equal to the canonical form of the original tree.           *)
(***************************************************************************)
SumCommutativity == pc = "permuted" => ExprEq(canonPerm, canon)

(***************************************************************************)
(* C2.  Canonicalization is idempotent: canonicalizing the canonical form  *)
(* of any expression gives an expression equal to that canonical form.     *)
(***************************************************************************)
CanonicalIdempotent == pc = "recanonical" => ExprEq(recanon, canon)

\* A tree that both flattening and sorting change has been canonicalized
\* twice.
CanonicalIdempotentWitness ==
    /\ pc = "recanonical"
    /\ flat # expr
    /\ canon # flat
    /\ recanon = canon

(***************************************************************************)
(* C3.  Flatten is idempotent: flattening a flattened expression gives an  *)
(* equal expression, at any nesting depth and for empty and one-element    *)
(* Sums and Products, and flattening a leaf gives that leaf.               *)
(***************************************************************************)
FlattenIdempotent ==
    /\ pc = "reflattened" => ExprEq(reflat, flat)
    /\ pc = "flattened" /\ IsLeaf(expr) => ExprEq(flat, expr)

\* A tree nested three deep that flattening changes has been flattened twice.
FlattenIdempotentWitness ==
    /\ pc = "reflattened"
    /\ Depth(expr) >= 3
    /\ flat # expr
    /\ reflat = flat

(***************************************************************************)
(* C4.  Canonicalization never reorders the factors of a Product: when the *)
(* flattened input is a Product of f1..fn, the canonical result is the     *)
(* Product of the canonical forms of f1..fn, in that order.                *)
(***************************************************************************)
ProductOrderPreserved ==
    pc = "canonical" /\ flat.kind = "Product" =>
        /\ canon.kind = "Product"
        /\ Len(canon.args) = Len(flat.args)
        /\ \A i \in 1..Len(flat.args) :
               \E c \in canonical_inner(flat.args[i]) \ {Panic} :
                   ExprEq(canon.args[i], c)

\* A Product that flattening changes, with two neighbouring factors that the
\* sort order would exchange, has been canonicalized.
ProductOrderPreservedWitness ==
    /\ pc = "canonical"
    /\ flat.kind = "Product"
    /\ flat # expr
    /\ \E i \in 1..(Len(canon.args) - 1) :
           sort_cmp(canon.args[i], canon.args[i + 1]) = "Greater"

(***************************************************************************)
(* C5.  Non-commutativity of Product, as claimed: for any two unequal      *)
(* expressions a and b, product([a, b]) and product([b, a]) canonicalize   *)
(* to unequal results.                                                     *)
(***************************************************************************)
ProductNonCommutative ==
    pc = "swapped" /\ ~ExprEq(expr.args[1], expr.args[2]) =>
        ~ExprEq(canon, canonPerm)

(***************************************************************************)
(* C5, amended.  For any two expressions a and b, neither of them a        *)
(* Product, whose canonical forms are unequal, product([a, b]) and         *)
(* product([b, a]) canonicalize to unequal results.                        *)
(***************************************************************************)
\* No canonical form a can have is equal to one b can have.
CanonicalFormsUnequal(a, b) ==
    \A ca \in canonical_inner(a) \ {Panic}, cb \in canonical_inner(b) \ {Panic} :
        ~ExprEq(ca, cb)

ProductNonCommutativeAmended ==
    /\ pc = "swapped"
    /\ expr.args[1].kind # "Product"
    /\ expr.args[2].kind # "Product"
    /\ CanonicalFormsUnequal(expr.args[1], expr.args[2])
    => ~ExprEq(canon, canonPerm)

\* product([a, b]) and product([b, a]) have been canonicalized, for a Sum a
\* that canonicalization changes and a b that is not a Product.
ProductNonCommutativeWitness ==
    /\ pc = "swapped"
    /\ expr.args[1].kind = "Sum"
    /\ expr.args[1] \notin canonical_inner(expr.args[1])
    /\ expr.args[2].kind # "Product"
    /\ CanonicalFormsUnequal(expr.args[1], expr.args[2])
    /\ ~ExprEq(canon, canonPerm)

(***************************************************************************)
(* C6.  No algebraic merging, as claimed: flatten and canonicalize keep    *)
(* the kind of the root and the bag of leaf occurrences; a Product over a  *)
(* Sum and the Sum of Products it distributes to canonicalize to unequal   *)
(* results; and sum([a, a]) keeps two terms, whatever a is.                *)
(***************************************************************************)
\* product([a, sum([t1..tn])]) written as sum([product([a, t1]), ..]).
Distributed(e) ==
    sum([i \in 1..Len(e.args[2].args) |-> product(<<e.args[1], e.args[2].args[i]>>)])

IsProductOverSum(e) ==
    e.kind = "Product" /\ Len(e.args) = 2 /\ e.args[2].kind = "Sum"

\* sum([a, a])
IsDoubled(e) ==
    e.kind = "Sum" /\ Len(e.args) = 2 /\ e.args[1] = e.args[2]

\* sum([a, a]) for an a that is not itself a Sum.
IsDoubledTerm(e) == IsDoubled(e) /\ e.args[1].kind # "Sum"

\* Root kind and leaf occurrences are kept, and a Product over a Sum is not
\* identified with its distributed form.
KeepsStructure ==
    /\ pc = "flattened" =>
          /\ flat.kind = expr.kind
          /\ LeafBag(flat) = LeafBag(expr)
    /\ pc = "canonical" =>
          /\ canon.kind = expr.kind
          /\ LeafBag(canon) = LeafBag(expr)
          /\ IsProductOverSum(expr) =>
                 \A d \in canonical(Distributed(expr)) \ {Panic} : ~ExprEq(canon, d)

NoMerging ==
    /\ KeepsStructure
    /\ pc = "flattened" /\ IsDoubled(expr) => Len(flat.args) = 2
    /\ pc = "canonical" /\ IsDoubled(expr) => Len(canon.args) = 2

(***************************************************************************)
(* C6, amended.  Flatten and canonicalize keep the kind of the root and    *)
(* the bag of leaf occurrences; a Product over a Sum and the Sum of        *)
(* Products it distributes to canonicalize to unequal results; and         *)
(* sum([a, a]) keeps two terms when a is not itself a Sum (a Sum a is      *)
(* spliced into its parent, which then holds the terms of a twice).        *)
(***************************************************************************)
NoMergingAmended ==
    /\ KeepsStructure
    /\ pc = "flattened" /\ IsDoubledTerm(expr) => Len(flat.args) = 2
    /\ pc = "canonical" /\ IsDoubledTerm(expr) => Len(canon.args) = 2

\* A Sum of one term written twice, the term not a Sum, whose canonical form
\* holds that term twice, has been flattened and canonicalized.
NoMergingWitness ==
    /\ pc = "canonical"
    /\ IsDoubledTerm(expr)
    /\ Len(canon.args) = 2
    /\ ExprEq(canon.args[1], canon.args[2])

(***************************************************************************)
(* C7.  PauliString invariant: whatever list PauliString::new is given     *)
(* (unordered, with identities, with duplicate indices), and whenever      *)
(* from_string succeeds, the stored indices are strictly ascending and no  *)
(* stored operator is the identity.                                        *)
(***************************************************************************)
PauliStringInvariant ==
    /\ pc = "new_done" => StrictlyAscending(ps.ops) /\ NoIdentity(ps.ops)
    /\ pc = "parse_done" /\ parsed.tag = "Ok" =>
          StrictlyAscending(parsed.val.ops) /\ NoIdentity(parsed.val.ops)

(***************************************************************************)
(* C8.  from_string succeeds exactly when every character of the text is   *)
(* one of I, X, Y, Z; on success the result is PauliString::new of the     *)
(* pairs (position, operator of the character); on failure the result is   *)
(* an error naming the first character that is none of them.               *)
(***************************************************************************)
PauliChars == {73, 88, 89, 90}
OpOfChar(c) == CASE c = 73 -> "I" [] c = 88 -> "X" [] c = 89 -> "Y" [] c = 90 -> "Z"

ParseContract ==
    pc = "parse_done" =>
        LET bad == {i \in 1..Len(text) : text[i] \notin PauliChars} IN
        /\ parsed.tag \in {"Ok", "Err"}
        /\ parsed.tag = "Ok" <=> bad = {}
        /\ parsed.tag = "Ok" =>
              parsed.val = PauliString_new([i \in 1..Len(text) |->
                                               <<i - 1, OpOfChar(text[i])>>])
        /\ parsed.tag = "Err" =>
              \E i \in bad : /\ \A j \in bad : i <= j
                             /\ parsed = Err(text[i])

\* A text with two different characters that name no operator, after one
\* that does, has been refused.
ParseContractWitness ==
    /\ pc = "parse_done"
    /\ parsed.tag = "Err"
    /\ Len(text) = 3
    /\ text[1] \in PauliChars
    /\ text[2] \notin PauliChars /\ text[3] \notin PauliChars
    /\ text[2] # text[3]
    /\ parsed.char = text[2]

(***************************************************************************)
(* C9.  The comparator that sorts the terms of a Sum is a strict total     *)
(* order: it ranks by variant kind first (Scalar, Symbol, Pauli, Sum,      *)
(* Product), it is antisymmetric and transitive, and two unequal           *)
(* expressions never compare as Equal.                                     *)
(***************************************************************************)
StrictTotalOrder ==
    pc = "compared" =>
        /\ KindRank(x) < KindRank(y) => cxy = "Less"
        /\ KindRank(x) > KindRank(y) => cxy = "Greater"
        /\ cxy = "Less" <=> cyx = "Greater"
        /\ cxy = "Equal" <=> cyx = "Equal"
        /\ cxy = "Less" /\ cyz = "Less" => cxz = "Less"
        /\ cxy = "Equal" /\ cyz = "Equal" => cxz = "Equal"
        /\ ~ExprEq(x, y) => cxy # "Equal"

(***************************************************************************)
(* C10.  Flatten splices in place and in order: the flattened Sum of       *)
(* t1..tn holds, from left to right and for each ti, the terms of          *)
(* flatten(ti) when that is a Sum and flatten(ti) itself otherwise (and    *)
(* likewise for Product); in the output no Sum has a Sum as a direct       *)
(* child and no Product a Product, at any depth; and sum([a, sum([b, c])]) *)
(* flattens to sum([a, b, c]).                                             *)
(***************************************************************************)
SplicedInOrder(e, f) ==
    IsLeaf(e) \/
       /\ f.kind = e.kind
       /\ f.args = Concat([i \in 1..Len(e.args) |->
                             LET ft == flatten(e.args[i]) IN
                             IF ft.kind = e.kind THEN ft.args ELSE <<ft>>])

IsSumWithInnerSum(e) ==
    /\ e.kind = "Sum" /\ Len(e.args) = 2
    /\ IsLeaf(e.args[1])
    /\ e.args[2].kind = "Sum" /\ Len(e.args[2].args) = 2
    /\ IsLeaf(e.args[2].args[1]) /\ IsLeaf(e.args[2].args[2])

FlattenSplices ==
    pc = "flattened" =>
        /\ SplicedInOrder(expr, flat)
        /\ NoSameKindChild(flat)
        /\ IsSumWithInnerSum(expr) =>
              flat = sum(<<expr.args[1], expr.args[2].args[1], expr.args[2].args[2]>>)

\* sum([a, sum([b, c])]) over three different leaves has been flattened to
\* a Sum of three terms.
FlattenSplicesWitness ==
    /\ pc = "flattened"
    /\ IsSumWithInnerSum(expr)
    /\ expr.args[1] # expr.args[2].args[1]
    /\ expr.args[1] # expr.args[2].args[2]
    /\ expr.args[2].args[1] # expr.args[2].args[2]
    /\ flat.kind = "Sum" /\ Len(flat.args) = 3

====
